---- MODULE Spec2Model ----
(***************************************************************************)
(* tBNB faucet: the verify / transfer / record-payout handshake between    *)
(* the MCP server (src/mcp_server/main.py) and the GitHub verification     *)
(* service (src/verification_service/main.py).                             *)
(*                                                                         *)
(* Time is counted in minutes of the verification host's wall clock.       *)
(* Optional values (Python's None) are sequences: <<>> is None, <<v>> is v.*)
(***************************************************************************)
EXTENDS Integers, Sequences, FiniteSets, TLC

\* ------------------------------------------------------------------ bounds
\* Number of disbursement requests (POST /requests) in one run.
MaxRequests == 2
\* Number of wall-clock changes (advances and backward adjustments) in one run.
MaxTicks == 2
\* Largest public_repos count of the accounts verify_builder is called with.
MaxRepoCount == 8

\* ----------------------------------------------------- program constants
\* timedelta(hours=24) in can_collect_tbnb
COOLDOWN_HOURS == 24
\* "if age_days < 30" in verify_builder
MIN_ACCOUNT_AGE_DAYS == 30
\* "if repo_count < 1" in verify_builder
MIN_REPO_COUNT == 1

Hours(h) == h * 60
Days(d) == d * 24 * 60

None == <<>>
Some(v) == <<v>>
IsNone(o) == o = <<>>
Val(o) == o[1]

Min(a, b) == IF a <= b THEN a ELSE b

Requests == 1..MaxRequests

\* ------------------------------------------------ the world outside
\* What GET https://api.github.com/users/<name> answers: the HTTP status and,
\* for a 200, the fields verify_builder reads (id, public_repos, created_at).
\* created_at is a wall-clock instant in minutes; None is a missing field.
GitHubUser(id, repos, created) ==
    [status |-> 200, id |-> id, public_repos |-> repos, created_at |-> created]

NotFound == [status |-> 404, id |-> None, public_repos |-> 0, created_at |-> None]

\* GitHub answers with an error that is not a 404 (503, or 403 when the
\* unauthenticated API rate limit is used up).
Unavailable == [status |-> 503, id |-> None, public_repos |-> 0, created_at |-> None]

Usernames == {"alice", "dave", "bob", "norepo", "zero", "ghost", "busy", "anon"}

GitHub(username) ==
    CASE username = "alice"  -> GitHubUser(Some(1), 5, Some(0 - Days(400)))
      [] username = "dave"   -> GitHubUser(Some(2), 7, None)
      [] username = "bob"    -> GitHubUser(Some(3), 3, Some(0 - Days(10)))
      [] username = "norepo" -> GitHubUser(Some(4), 0, Some(0 - Days(400)))
      [] username = "zero"   -> GitHubUser(Some(0), 1, Some(0 - Days(90)))
      [] username = "busy"   -> Unavailable
      [] username = "anon"   -> GitHubUser(None, 2, Some(0 - Days(400)))
      [] OTHER               -> NotFound

\* requests.get(...) either answers or raises requests.RequestException.
LookupOutcomes(username) ==
    { [raised |-> FALSE, resp |-> GitHub(username)],
      [raised |-> TRUE,  resp |-> NotFound] }

Wallets == {"0xabc", "not-an-address"}

\* The payloads POST /requests is called with: (github_username, wallet_address).
Payloads ==
    { <<"alice", "0xabc">>, <<"alice", "not-an-address">>, <<"dave", "0xabc">>,
      <<"zero", "0xabc">>, <<"bob", "0xabc">> }

\* ------------------------------------------------------------------ state
VARIABLES
    clock,            \* datetime.now() on the verification host, in minutes
    ticks,            \* number of clock changes so far
    payout_history,   \* the SQLite table: a set of rows
    payout_amount,    \* DEFAULT_PAYOUT_AMOUNT, in tenths of an ether
    tx_count,         \* w3.eth.get_transaction_count(treasury): mined transfers
    mempool,          \* transactions the node accepted and has not mined
    receipts,         \* mined transactions with their receipt status
    submitted,        \* every (request, nonce) signed and handed to the node
    record_log,       \* the record_payout executions, in commit order
    req,              \* per request: the coroutine's position and locals
    real,             \* minutes that have truly elapsed (the clock can be wrong)
    record_real,      \* for each record_log entry, the real time it was made
    vb                \* one verify_builder call: its position and locals

vars == <<clock, ticks, payout_history, payout_amount, tx_count, mempool,
          receipts, submitted, record_log, req, real, record_real, vb>>

\* ------------------------------------------------------ Rate-Limit Store
\* CREATE TABLE payout_history (github_user_id INTEGER PRIMARY KEY, ...)
PRIMARY_KEY == TRUE

Row(id, ts) == [github_user_id |-> id, last_payout_timestamp |-> ts]

\* SELECT last_payout_timestamp FROM payout_history WHERE github_user_id = ?
\* A None parameter binds SQL NULL, and "= NULL" matches no row.
SelectRows(table, github_user_id) ==
    IF IsNone(github_user_id) THEN {}
    ELSE { row \in table : row.github_user_id = Val(github_user_id) }

\* cursor.fetchone(): None, or one of the selected rows.
FetchOne(rows) ==
    IF rows = {} THEN None
    ELSE Some((CHOOSE row \in rows :
                 \A other \in rows :
                    row.last_payout_timestamp <= other.last_payout_timestamp
              ).last_payout_timestamp)

RateLimited(time_since) ==
    [text |-> "Rate limited", args |-> <<time_since, Hours(COOLDOWN_HOURS) - time_since>>]

NoMessage == [text |-> "", args |-> <<>>]

\* Mutants of InCooldown: the boundary instant counted as inside the window,
\* and a window one hour short.
InCooldownInclusive(time_since) == time_since <= Hours(COOLDOWN_HOURS)

InCooldownShort(time_since) == time_since < Hours(COOLDOWN_HOURS - 1)

\* Mutant of InCooldown: a row stamped later than now does not count.
InCooldownPastOnly(time_since) == 0 <= time_since /\ time_since < Hours(COOLDOWN_HOURS)

\* time_since < timedelta(hours=24)
InCooldown(time_since) == time_since < Hours(COOLDOWN_HOURS)

\* Mutant of StoreAfterSelect: the lookup restamps the row it finds.
StoreTouchedOnSelect(table, github_user_id, now) ==
    IF IsNone(github_user_id) THEN table
    ELSE { IF row.github_user_id = Val(github_user_id)
           THEN Row(row.github_user_id, now) ELSE row : row \in table }

\* The table once can_collect_tbnb has returned (lines 83-90): it connects,
\* runs one SELECT and closes; nothing is inserted, updated or committed.
StoreAfterSelect(table, github_user_id, now) == table

\* can_collect_tbnb(github_user_id) -> (can_collect, error_message)
can_collect_tbnb(table, github_user_id, now) ==
    LET result == FetchOne(SelectRows(table, github_user_id))
    IN  IF IsNone(result) THEN <<TRUE, NoMessage>>
        ELSE LET time_since == now - Val(result)
             IN  IF InCooldown(time_since)
                 THEN <<FALSE, RateLimited(time_since)>>
                 ELSE <<TRUE, NoMessage>>

\* Mutant of InsertOrReplace: a plain INSERT into a table without the key.
InsertAppend(table, row) == table \cup {row}

\* INSERT OR REPLACE INTO payout_history VALUES (?, ?): with the primary key
\* the conflicting row is deleted before the new one is inserted.
InsertOrReplace(table, row) ==
    IF PRIMARY_KEY
    THEN { old \in table : old.github_user_id # row.github_user_id } \cup {row}
    ELSE table \cup {row}

\* record_payout(github_user_id): stamps datetime.now()
record_payout(table, github_user_id, now) ==
    InsertOrReplace(table, Row(github_user_id, now))

\* ---------------------------------------------------- Eligibility Verifier
Text(t) == [text |-> t, args |-> <<>>]

\* VerificationResponse(...); confidence is kept in hundredths.
Verdict(wallet, verified, confidence, reason, id, repos, age) ==
    [wallet_address |-> wallet, verified |-> verified, confidence |-> confidence,
     reason |-> reason, github_user_id |-> id, repo_count |-> repos,
     account_age_days |-> age]

\* (datetime.now(timezone.utc) - created_at).days
AgeDays(now, created_at) == (now - created_at) \div Days(1)

\* Mutant of Confidence: the sum without the cap.
ConfidenceUncapped(repo_count) == 70 + repo_count * 5

\* min(1.0, 0.7 + (repo_count * 0.05)), in hundredths
Confidence(repo_count) == Min(100, 70 + repo_count * 5)

\* The rate-limit gate and the all-checks-passed verdict (lines 192-215).
RateGate(wallet, table, now, id, repo_count, age_days) ==
    LET gate == can_collect_tbnb(table, id, now)
    IN  IF ~gate[1]
        THEN Verdict(wallet, FALSE, 0, gate[2], id, Some(repo_count), age_days)
        ELSE Verdict(wallet, TRUE, Confidence(repo_count),
                     Text("All verification checks passed"),
                     id, Some(repo_count), age_days)

\* Lines 136-155: the identity lookup. A gate is None when it lets the call
\* go on, and the verdict verify_builder returns when it fails.
LookupGate(lookup, wallet) ==
    IF lookup.raised
    THEN Some(Verdict(wallet, FALSE, 0, Text("Failed to reach GitHub API"),
                      None, None, None))
    ELSE IF lookup.resp.status # 200
    THEN Some(Verdict(wallet, FALSE, 0,
                      [text |-> "GitHub account not found",
                       args |-> <<lookup.resp.status>>],
                      None, None, None))
    ELSE None

\* Mutant of ActivityGate: the activity check is left out.
ActivityGateAbsent(resp, wallet) == None

\* Lines 157-172: "if repo_count < 1"; the verdict reports repo_count=0.
ActivityGate(resp, wallet) ==
    IF resp.public_repos < MIN_REPO_COUNT
    THEN Some(Verdict(wallet, FALSE, 0, Text("No public repositories"),
                      resp.id, Some(0), None))
    ELSE None

\* Mutant of AccountAge: an account without created_at counts as new.
AccountAgeZeroIfMissing(resp, now) ==
    IF IsNone(resp.created_at) THEN Some(0)
    ELSE Some(AgeDays(now, Val(resp.created_at)))

\* Lines 175-177 and 189-190: age_days, None without a created_at.
AccountAge(resp, now) ==
    IF IsNone(resp.created_at) THEN None
    ELSE Some(AgeDays(now, Val(resp.created_at)))

\* Lines 174-190: "if age_days < 30", skipped without a created_at.
AgeGate(resp, wallet, now) ==
    LET age_days == AccountAge(resp, now)
    IN  IF ~IsNone(age_days) /\ Val(age_days) < MIN_ACCOUNT_AGE_DAYS
        THEN Some(Verdict(wallet, FALSE, 0,
                          [text |-> "Account too new", args |-> <<Val(age_days)>>],
                          resp.id, Some(resp.public_repos), age_days))
        ELSE None

\* verify_builder(github_username, wallet_address), given what the GitHub
\* lookup did, the table and the clock at the moment of the call.
verify_builder(lookup, wallet, table, now) ==
    IF ~IsNone(LookupGate(lookup, wallet))
    THEN Val(LookupGate(lookup, wallet))
    ELSE IF ~IsNone(ActivityGate(lookup.resp, wallet))
    THEN Val(ActivityGate(lookup.resp, wallet))
    ELSE IF ~IsNone(AgeGate(lookup.resp, wallet, now))
    THEN Val(AgeGate(lookup.resp, wallet, now))
    ELSE RateGate(wallet, table, now, lookup.resp.id, lookup.resp.public_repos,
                  AccountAge(lookup.resp, now))

\* The table once verify_builder has returned: can_collect_tbnb is its only
\* access to the database, made when the three earlier checks have passed.
StoreAfterVerify(lookup, wallet, table, now) ==
    IF /\ IsNone(LookupGate(lookup, wallet))
       /\ IsNone(ActivityGate(lookup.resp, wallet))
       /\ IsNone(AgeGate(lookup.resp, wallet, now))
    THEN StoreAfterSelect(table, lookup.resp.id, now)
    ELSE table

\* One verify_builder call, gate by gate: where it is, the lookup's outcome,
\* the gates it has evaluated and the SELECTs it has run on payout_history.
NewCall ==
    [pc |-> "idle", lookup |-> None, wallet |-> "", verdict |-> None,
     gates |-> <<>>, store_reads |-> 0]

\* A gate was evaluated: return its verdict, or go on to the next gate.
AfterGate(c, gate, outcome, next) ==
    IF IsNone(outcome)
    THEN [c EXCEPT !.pc = next, !.gates = Append(@, gate)]
    ELSE [c EXCEPT !.pc = "returned", !.gates = Append(@, gate), !.verdict = outcome]

\* ------------------------------------------------ Disbursement Coordinator
\* One request_tbnb coroutine: where it is, its locals, and what it has done.
NewRequest ==
    [pc |-> "idle",
     wallet_address |-> "",     \* payload.wallet_address
     verification |-> None,     \* the verdict verify_wallet returned
     request_id |-> None,       \* uuid4
     nonce |-> None,            \* the nonce _send_tbnb read
     tx_hash |-> None,          \* what initiate_payout returned
     response |-> None,         \* the HTTP response, once the request ended
     transfers |-> 0,           \* calls of initiate_payout made
     transfer_error |-> "",     \* the exception _send_tbnb raised, if any
     record_calls |-> 0,        \* calls of record_payout made
     record_failed |-> FALSE,   \* record_payout raised
     verified_at |-> None,      \* clock when the verdict was computed
     since_payout |-> None,     \* then: time since the identity's last record
     recorded_at |-> None]      \* timestamp this request wrote to the table

\* raise HTTPException(status_code, detail)
HTTPError(status_code, prefix, reason) ==
    [status_code |-> status_code, status |-> "",
     detail |-> [prefix |-> prefix, reason |-> reason],
     tx_hash |-> None, verification |-> None, request_id |-> None]

\* return DisbursementResponse(status="approved", ...)
DisbursementResponse(request_id, tx_hash, verification) ==
    [status_code |-> 200, status |-> "approved",
     detail |-> [prefix |-> "", reason |-> Text("Disbursement submitted to BSC testnet")],
     tx_hash |-> tx_hash, verification |-> verification, request_id |-> request_id]

Done(s) == s.pc = "done"
Approved(s) == Done(s) /\ Val(s.response).status = "approved"
Denied(s) == Done(s) /\ Val(s.response).status_code = 403
Failed(s) == Done(s) /\ Val(s.response).status_code = 500

\* dict.get(key, default)
Get(d, key, default) == IF key \in DOMAIN d THEN d[key] ELSE default

\* Mutants of VerdictDenies: only a verdict without the field is refused,
\* and only a verdict whose field is false is refused.
VerdictDeniesIfMissing(verification) == "verified" \notin DOMAIN verification

VerdictDeniesIfFalse(verification) ==
    "verified" \in DOMAIN verification /\ ~verification.verified

\* "if not verification.get('verified')": a missing field is None, falsy.
VerdictDenies(verification) ==
    "verified" \notin DOMAIN verification \/ ~verification.verified

\* "if github_user_id:" -- None and 0 are falsy
Truthy(github_user_id) == ~IsNone(github_user_id) /\ Val(github_user_id) # 0

\* Lines 138-147: the verdict arrived.
OnVerdict(s, r, verdict, now) ==
    IF VerdictDenies(verdict)
    THEN [s EXCEPT !.pc = "done", !.verification = Some(verdict),
                   !.verified_at = Some(now),
                   !.response = Some(HTTPError(403, "Verification failed",
                                               Get(verdict, "reason",
                                                   Text("Unknown verification failure"))))]
    ELSE [s EXCEPT !.pc = "payout", !.verification = Some(verdict),
                   !.verified_at = Some(now), !.request_id = Some(r)]

\* Mutants of OnTransferException: the transfer is tried again, and the
\* exception is swallowed like a recording failure.
OnTransferExceptionRetry(s, exc) ==
    [s EXCEPT !.pc = "payout", !.transfer_error = exc]

OnTransferExceptionSwallowed(s, exc) ==
    [s EXCEPT !.pc = "done", !.transfer_error = exc,
              !.response = Some(DisbursementResponse(s.request_id, s.tx_hash,
                                                     s.verification))]

\* Lines 159-160: anything initiate_payout raised becomes a 500.
OnTransferException(s, exc) ==
    [s EXCEPT !.pc = "done", !.transfer_error = exc,
              !.response = Some(HTTPError(500, "", Text(exc)))]

\* Mutant of Respond: the response leaves the transaction hash out.
RespondWithoutHash(s) ==
    [s EXCEPT !.pc = "done",
              !.response = Some(DisbursementResponse(s.request_id, None, s.verification))]

\* Lines 162-168.
Respond(s) ==
    [s EXCEPT !.pc = "done",
              !.response = Some(DisbursementResponse(s.request_id, s.tx_hash, s.verification))]

\* Lines 149-153: initiate_payout returned tx_hash.
OnTransferred(s, tx_hash) ==
    LET t == [s EXCEPT !.tx_hash = Some(tx_hash)]
    IN  IF Truthy(Get(Val(s.verification), "github_user_id", None))
        THEN [t EXCEPT !.pc = "recording"]
        ELSE Respond(t)

\* Mutant of OnRecorded: without the inner try, the outer except turns a
\* recording failure into a 500.
OnRecordedStrict(s, raised) ==
    IF raised
    THEN [s EXCEPT !.pc = "done", !.record_failed = TRUE,
                   !.response = Some(HTTPError(500, "", Text("record-payout failed")))]
    ELSE Respond(s)

\* Lines 155-158: record_payout returned, or raised and was swallowed.
OnRecorded(s, raised) ==
    Respond([s EXCEPT !.record_failed = raised])

\* ------------------------------------------------ Transfer Signer/Submitter
\* Web3.to_checksum_address(wallet_address): the EIP-55 form, or ValueError.
to_checksum_address(wallet_address) ==
    IF wallet_address = "0xabc" THEN Some("0xABC") ELSE None

\* w3.to_wei(amount, "ether"), in units of 10^17 wei
to_wei(amount) == amount

\* Lines 103-106: what _send_tbnb raises before it touches the chain.
SendPrecondition(wallet_address, amount) ==
    IF IsNone(to_checksum_address(wallet_address)) THEN "invalid address"
    ELSE IF to_wei(amount) <= 0 THEN "DEFAULT_PAYOUT_AMOUNT must be positive."
    ELSE ""

\* Lines 111-118: the transaction; its hash stands for its signed bytes.
Tx(wallet_address, amount, nonce) ==
    [to |-> Val(to_checksum_address(wallet_address)), value |-> to_wei(amount),
     nonce |-> nonce]

\* The node takes a transaction whose nonce is the account's next one and
\* is not already taken by a pending transaction.
NodeAccepts(tx) ==
    /\ tx.nonce = tx_count
    /\ \A p \in mempool : p.nonce # tx.nonce

\* Mutant of ReceiptFailed: the receipt status is not looked at.
ReceiptStatusIgnored(status) == FALSE

\* "if receipt.status != 1: raise RuntimeError"
ReceiptFailed(status) == status # 1

Receipt(tx) == CHOOSE rc \in receipts : rc.tx = tx

\* Mutant of ReceiptWaitBounded: a wait with timeout=None.
ReceiptWaitUnbounded == FALSE

\* w3.eth.wait_for_transaction_receipt(tx_hash) is called without a timeout
\* argument: web3's default (120 s) applies and the wait ends in TimeExhausted.
ReceiptWaitBounded == TRUE

\* ---------------------------------------------------------------- actions
Init ==
    /\ clock = 0
    /\ ticks = 0
    /\ payout_history = {}
    /\ payout_amount \in {0, 3}
    /\ tx_count = 0
    /\ mempool = {}
    /\ receipts = {}
    /\ submitted = {}
    /\ record_log = <<>>
    /\ req = [r \in Requests |-> NewRequest]
    /\ real = 0
    /\ record_real = <<>>
    /\ vb = NewCall

\* The most recent record_payout execution for an identity reference, and
\* the real time at which it was made.
LastWrite(id) ==
    LET at == { i \in 1..Len(record_log) : record_log[i].github_user_id = id }
    IN  CHOOSE i \in at : \A j \in at : j <= i

LastRecorded(id) == record_log[LastWrite(id)]

RecordedIds == { record_log[i].github_user_id : i \in 1..Len(record_log) }

\* For a verification at wall-clock instant now and real instant now_real:
\* how long ago the identity's payout was recorded, by the clock and in truth.
SincePayout(id, now, now_real) ==
    IF IsNone(id) \/ Val(id) \notin RecordedIds THEN None
    ELSE Some([clock |-> now - LastRecorded(Val(id)).last_payout_timestamp,
               real |-> now_real - record_real[LastWrite(Val(id))]])

\* Requests arrive in index order (the slots are interchangeable).
MayArrive(r) == \A o \in Requests : o < r => req[o].pc # "idle"

\* datetime.now(): the wall clock has moved by d since it was last read.
\* Forward moves are time passing; a backward move is the clock being set
\* back (datetime.now() is not monotonic).
ClockAdvances == {0, 1, Hours(COOLDOWN_HOURS) - 1, Hours(COOLDOWN_HOURS)}
ClockSetBack == {0 - Hours(1)}
ClockMoves == ClockAdvances \cup ClockSetBack

ReadClock(d) ==
    /\ d # 0 => ticks < MaxTicks
    /\ clock' = clock + d
    /\ real' = real + (IF d > 0 THEN d ELSE 0)
    /\ ticks' = IF d = 0 THEN ticks ELSE ticks + 1

\* POST /requests: verify_wallet posts to the verifier, which runs
\* verify_builder against the table and its clock and answers (lines 138-147).
RequestVerify(r, moves) ==
    /\ req[r].pc = "idle"
    /\ MayArrive(r)
    /\ \E d \in moves : ReadClock(d)
    /\ \E payload \in Payloads :
         \E lookup \in LookupOutcomes(payload[1]) :
            LET wallet == payload[2]
                verdict == verify_builder(lookup, wallet, payout_history, clock')
                s == [req[r] EXCEPT !.wallet_address = wallet,
                                    !.since_payout =
                                       SincePayout(verdict.github_user_id,
                                                   clock', real')]
            IN  /\ req' = [req EXCEPT ![r] = OnVerdict(s, r, verdict, clock')]
                /\ payout_history' = StoreAfterVerify(lookup, wallet,
                                                      payout_history, clock')
    /\ UNCHANGED <<payout_amount, tx_count,
                   mempool, receipts, submitted, record_log, record_real, vb>>

\* verify_wallet raises (verifier unreachable, timeout, raise_for_status):
\* nothing in request_tbnb catches it, the framework answers 500.
VerifierUnavailable(r) ==
    /\ req[r].pc = "idle"
    /\ MayArrive(r)
    /\ \E payload \in Payloads :
         req' = [req EXCEPT ![r] =
                   [@ EXCEPT !.pc = "done", !.wallet_address = payload[2],
                             !.response = Some(HTTPError(500, "",
                                                Text("Internal Server Error")))]]
    /\ UNCHANGED <<real, record_real, vb, clock, ticks, payout_history,
                   payout_amount, tx_count,
                   mempool, receipts, submitted, record_log>>

\* A 2xx answer that is not a verdict: a JSON object without "verified".
OtherBodies == { [status |-> "ok"] }

\* verify_wallet returns whatever JSON object the verification URL answered
\* with (lines 87-88); request_tbnb treats it like a verdict (lines 138-147).
VerifierAnswersOther(r) ==
    /\ req[r].pc = "idle"
    /\ MayArrive(r)
    /\ \E payload \in Payloads, body \in OtherBodies :
         LET s == [req[r] EXCEPT !.wallet_address = payload[2]]
         IN  req' = [req EXCEPT ![r] = OnVerdict(s, r, body, clock)]
    /\ UNCHANGED <<real, record_real, vb, clock, ticks, payout_history,
                   payout_amount, tx_count,
                   mempool, receipts, submitted, record_log>>

\* initiate_payout -> _send_tbnb, lines 103-109: the address and the amount
\* are checked, then the nonce is read from the chain.
SendPrepare(r) ==
    /\ req[r].pc = "payout"
    /\ LET s == [req[r] EXCEPT !.transfers = @ + 1]
           exc == SendPrecondition(s.wallet_address, payout_amount)
       IN  req' = [req EXCEPT ![r] =
                     IF exc # "" THEN OnTransferException(s, exc)
                     ELSE [s EXCEPT !.pc = "built", !.nonce = Some(tx_count)]]
    /\ UNCHANGED <<real, record_real, vb, clock, ticks, payout_history,
                   payout_amount, tx_count,
                   mempool, receipts, submitted, record_log>>

\* Lines 120-121: sign and send_raw_transaction; the node takes it or
\* answers with an error, which send_raw_transaction raises.
SubmitTx(r) ==
    /\ req[r].pc = "built"
    /\ LET s == req[r]
           tx == Tx(s.wallet_address, payout_amount, Val(s.nonce))
       IN  /\ submitted' = submitted \cup {[req |-> r, nonce |-> tx.nonce]}
           /\ IF NodeAccepts(tx)
              THEN /\ mempool' = mempool \cup {tx}
                   /\ req' = [req EXCEPT ![r] = [s EXCEPT !.pc = "waiting"]]
              ELSE /\ mempool' = mempool
                   /\ req' = [req EXCEPT ![r] =
                                OnTransferException(s, "nonce rejected by node")]
    /\ UNCHANGED <<real, record_real, vb, clock, ticks, payout_history,
                   payout_amount, tx_count, receipts,
                   record_log>>

\* The RPC endpoint fails while reading the nonce or sending (lines 108-121).
RpcError(r) ==
    /\ req[r].pc = "built"
    /\ req' = [req EXCEPT ![r] = OnTransferException(@, "rpc error")]
    /\ UNCHANGED <<real, record_real, vb, clock, ticks, payout_history,
                   payout_amount, tx_count,
                   mempool, receipts, submitted, record_log>>

\* The chain includes the pending transaction; a value transfer can still
\* revert (receipt status 0).
Mine ==
    /\ \E tx \in mempool, status \in {0, 1} :
         /\ tx.nonce = tx_count
         /\ mempool' = mempool \ {tx}
         /\ receipts' = receipts \cup {[tx |-> tx, status |-> status]}
         /\ tx_count' = tx_count + 1
    /\ UNCHANGED <<real, record_real, vb, clock, ticks, payout_history,
                   payout_amount, submitted,
                   record_log, req>>

\* Lines 122-127 and 149-153: wait_for_transaction_receipt returns.
AwaitReceipt(r) ==
    /\ req[r].pc = "waiting"
    /\ LET s == req[r]
           tx == Tx(s.wallet_address, payout_amount, Val(s.nonce))
       IN  /\ \E rc \in receipts : rc.tx = tx
           /\ req' = [req EXCEPT ![r] =
                        IF ReceiptFailed(Receipt(tx).status)
                        THEN OnTransferException(s, "On-chain transfer failed.")
                        ELSE OnTransferred(s, tx)]
    /\ UNCHANGED <<real, record_real, vb, clock, ticks, payout_history,
                   payout_amount, tx_count,
                   mempool, receipts, submitted, record_log>>

\* wait_for_transaction_receipt gives up (TimeExhausted) while the
\* transaction is still pending; the transaction stays in the mempool.
ReceiptTimeout(r) ==
    /\ req[r].pc = "waiting"
    /\ LET s == req[r]
           tx == Tx(s.wallet_address, payout_amount, Val(s.nonce))
       IN  /\ ReceiptWaitBounded
           /\ tx \in mempool
           /\ req' = [req EXCEPT ![r] = OnTransferException(s, "receipt timeout")]
    /\ UNCHANGED <<real, record_real, vb, clock, ticks, payout_history,
                   payout_amount, tx_count,
                   mempool, receipts, submitted, record_log>>

\* Lines 155 and 162-168: POST /record-payout succeeds; the verifier's
\* record_payout stamps its clock into the table.
RecordPayout(r, moves) ==
    /\ req[r].pc = "recording"
    /\ \E d \in moves : ReadClock(d)
    /\ LET s == [req[r] EXCEPT !.record_calls = @ + 1, !.recorded_at = Some(clock')]
           id == Val(Val(s.verification).github_user_id)
       IN  /\ payout_history' = record_payout(payout_history, id, clock')
           /\ record_log' = Append(record_log, Row(id, clock'))
           /\ record_real' = Append(record_real, real')
           /\ req' = [req EXCEPT ![r] = OnRecorded(s, FALSE)]
    /\ UNCHANGED <<payout_amount, tx_count, mempool, receipts, submitted, vb>>

\* Lines 155-158: the call raises (connection error, non-2xx, 10 s timeout).
\* On a timeout the verifier may have written the row all the same.
RecordPayoutFails(r, moves) ==
    /\ req[r].pc = "recording"
    /\ \E d \in moves : ReadClock(d)
    /\ \E wrote \in BOOLEAN :
         LET s == [req[r] EXCEPT !.record_calls = @ + 1,
                                 !.recorded_at = IF wrote THEN Some(clock') ELSE None]
             id == Val(Val(s.verification).github_user_id)
         IN  /\ payout_history' = IF wrote THEN record_payout(payout_history, id, clock')
                                  ELSE payout_history
             /\ record_log' = IF wrote THEN Append(record_log, Row(id, clock'))
                               ELSE record_log
             /\ record_real' = IF wrote THEN Append(record_real, real')
                                ELSE record_real
             /\ req' = [req EXCEPT ![r] = OnRecorded(s, TRUE)]
    /\ UNCHANGED <<payout_amount, tx_count, mempool, receipts, submitted, vb>>

Next ==
    \/ \E r \in Requests : RequestVerify(r, ClockMoves)
    \/ \E r \in Requests : VerifierUnavailable(r)
    \/ \E r \in Requests : VerifierAnswersOther(r)
    \/ \E r \in Requests : SendPrepare(r)
    \/ \E r \in Requests : SubmitTx(r)
    \/ \E r \in Requests : RpcError(r)
    \/ Mine
    \/ \E r \in Requests : AwaitReceipt(r)
    \/ \E r \in Requests : ReceiptTimeout(r)
    \/ \E r \in Requests : RecordPayout(r, ClockMoves)
    \/ \E r \in Requests : RecordPayoutFails(r, ClockMoves)

Spec == Init /\ [][Next]_vars

\* What the event loop does for a request that has arrived: each awaited
\* call returns or raises (httpx timeouts of 30 s and 10 s, the receipt wait).
Step(r) ==
    \/ SendPrepare(r)
    \/ SubmitTx(r)
    \/ RpcError(r)
    \/ AwaitReceipt(r)
    \/ ReceiptTimeout(r)
    \/ RecordPayout(r, ClockMoves)
    \/ RecordPayoutFails(r, ClockMoves)

\* Every coroutine whose awaited call can complete is resumed.
SpecFair == Spec /\ \A r \in Requests : WF_vars(Step(r))

\* Requests handled one after another, every record-payout call succeeding,
\* the wall clock never set back.
Sequential(r) == \A o \in Requests \ {r} : req[o].pc \in {"idle", "done"}

NextSeq ==
    \/ \E r \in Requests : Sequential(r) /\ RequestVerify(r, ClockAdvances)
    \/ \E r \in Requests : Sequential(r) /\ VerifierUnavailable(r)
    \/ \E r \in Requests : Sequential(r) /\ VerifierAnswersOther(r)
    \/ \E r \in Requests : Sequential(r) /\ SendPrepare(r)
    \/ \E r \in Requests : Sequential(r) /\ SubmitTx(r)
    \/ \E r \in Requests : Sequential(r) /\ RpcError(r)
    \/ Mine
    \/ \E r \in Requests : Sequential(r) /\ AwaitReceipt(r)
    \/ \E r \in Requests : Sequential(r) /\ ReceiptTimeout(r)
    \/ \E r \in Requests : Sequential(r) /\ RecordPayout(r, ClockAdvances)

SpecSeq == Init /\ [][NextSeq]_vars

\* The wall clock is set back (NTP step, operator, end of daylight saving
\* time for the naive local datetime.now()): no time passes.
SetClockBack ==
    /\ ticks < MaxTicks
    /\ \E d \in ClockSetBack : clock' = clock + d
    /\ ticks' = ticks + 1
    /\ UNCHANGED <<real, record_real, vb, payout_history, payout_amount, tx_count,
                   mempool, receipts, submitted, record_log, req>>

\* Requests one after another on a host whose clock can be set back at any
\* moment.
NextClock ==
    \/ NextSeq
    \/ SetClockBack

SpecClock == Init /\ [][NextClock]_vars

\* ------------------------------------------- verify_builder, gate by gate
\* The lookups a call can see: every named account, an old account with each
\* public_repos count, and accounts created 29 and 30 days before instant 0.
VerifyLookups ==
    UNION { LookupOutcomes(username) : username \in Usernames }
    \cup { [raised |-> FALSE, resp |-> GitHubUser(Some(1), n, Some(0 - Days(400)))] :
             n \in 0..MaxRepoCount }
    \cup { [raised |-> FALSE, resp |-> GitHubUser(Some(2), 2, Some(0 - Days(a)))] :
             a \in {MIN_ACCOUNT_AGE_DAYS - 1, MIN_ACCOUNT_AGE_DAYS} }

\* The tables a call can find: empty, or rows written at instant 0.
VerifyTables ==
    { {Row(id, 0) : id \in ids} : ids \in {{}, {1}, {2}, {0, 1}} }

VerifyClocks == {0, Hours(COOLDOWN_HOURS) - 1, Hours(COOLDOWN_HOURS)}

InitVerify ==
    /\ clock \in VerifyClocks
    /\ ticks = 0
    /\ payout_history \in VerifyTables
    /\ payout_amount = 3
    /\ tx_count = 0
    /\ mempool = {}
    /\ receipts = {}
    /\ submitted = {}
    /\ record_log = <<>>
    /\ req = [r \in Requests |-> NewRequest]
    /\ real = 0
    /\ record_real = <<>>
    /\ vb = NewCall

VerifyUnchanged ==
    UNCHANGED <<clock, ticks, payout_history, payout_amount, tx_count, mempool,
                receipts, submitted, record_log, req, real, record_real>>

\* POST /verify, lines 133-155: requests.get and the checks on its answer.
VerifyLookup ==
    /\ vb.pc = "idle"
    /\ \E lookup \in VerifyLookups, wallet \in Wallets :
         vb' = AfterGate([vb EXCEPT !.lookup = Some(lookup), !.wallet = wallet],
                         "lookup", LookupGate(lookup, wallet), "activity")
    /\ VerifyUnchanged

\* Lines 157-172.
VerifyActivity ==
    /\ vb.pc = "activity"
    /\ vb' = AfterGate(vb, "activity",
                       ActivityGate(Val(vb.lookup).resp, vb.wallet), "age")
    /\ VerifyUnchanged

\* Lines 174-190.
VerifyAge ==
    /\ vb.pc = "age"
    /\ vb' = AfterGate(vb, "age",
                       AgeGate(Val(vb.lookup).resp, vb.wallet, clock), "rate")
    /\ VerifyUnchanged

\* Lines 192-215: can_collect_tbnb runs its SELECT, then the verdict.
VerifyRate ==
    /\ vb.pc = "rate"
    /\ LET resp == Val(vb.lookup).resp
           c == [vb EXCEPT !.store_reads = @ + 1]
       IN  /\ vb' = AfterGate(c, "rate",
                              Some(RateGate(vb.wallet, payout_history, clock, resp.id,
                                            resp.public_repos, AccountAge(resp, clock))),
                              "returned")
           /\ payout_history' = StoreAfterSelect(payout_history, resp.id, clock)
    /\ UNCHANGED <<clock, ticks, payout_amount, tx_count, mempool, receipts,
                   submitted, record_log, req, real, record_real>>

NextVerify ==
    \/ VerifyLookup
    \/ VerifyActivity
    \/ VerifyAge
    \/ VerifyRate

SpecVerify == InitVerify /\ [][NextVerify]_vars

\* ------------------------------------------------------------------ claims
HasVerdict(s) == ~IsNone(s.verification) /\ "verified" \in DOMAIN Val(s.verification)
VerdictTrue(s) == HasVerdict(s) /\ Val(s.verification).verified
VerdictFalse(s) == HasVerdict(s) /\ ~Val(s.verification).verified
SubmittedBy(r) == { e \in submitted : e.req = r }

\* The transaction request r built, and whether the chain confirmed it.
TxOf(s) == Tx(s.wallet_address, payout_amount, Val(s.nonce))
ConfirmedOk(tx) == \E rc \in receipts : rc.tx = tx /\ rc.status = 1

\* Past the verdict and not yet answered: inside initiate_payout or the
\* record-payout call.
InFlight(s) == s.pc \in {"payout", "built", "waiting", "recording"}

\* C1: the Signer/Submitter is invoked for a request only after the Verifier
\* returned verified = true for that request; a request whose verdict is
\* verified = false never attempts a transfer.
C1_TransferOnlyAfterTrueVerdict ==
    \A r \in Requests :
       /\ (req[r].transfers > 0 \/ SubmittedBy(r) # {} \/ ~IsNone(req[r].nonce))
             => VerdictTrue(req[r])
       /\ VerdictFalse(req[r])
             => req[r].transfers = 0 /\ SubmittedBy(r) = {} /\ IsNone(req[r].tx_hash)

\* One request was refused and attempted nothing, another was verified and
\* had its transfer submitted.
C1_Witness ==
    \E r1, r2 \in Requests :
       /\ VerdictFalse(req[r1]) /\ Denied(req[r1])
       /\ VerdictTrue(req[r2]) /\ req[r2].transfers = 1 /\ SubmittedBy(r2) # {}

\* C2: record-payout is called for a request only after that request's
\* transfer was submitted, confirmed and found successful (after a true
\* verdict), and never for a denied request or one whose transfer failed.
C2_RecordOnlyAfterConfirmedTransfer ==
    \A r \in Requests :
       /\ (req[r].record_calls > 0 \/ req[r].pc = "recording" \/ ~IsNone(req[r].recorded_at))
             => /\ VerdictTrue(req[r])
                /\ req[r].transfer_error = ""
                /\ req[r].tx_hash = Some(TxOf(req[r]))
                /\ [req |-> r, nonce |-> Val(req[r].nonce)] \in submitted
                /\ ConfirmedOk(TxOf(req[r]))
       /\ (VerdictFalse(req[r]) \/ req[r].transfer_error # "")
             => req[r].record_calls = 0 /\ IsNone(req[r].recorded_at)

\* One request recorded its payout after a confirmed transfer, another one's
\* transfer reverted on chain and nothing was recorded for it.
C2_Witness ==
    \E r1, r2 \in Requests :
       /\ req[r1].record_calls = 1 /\ ~IsNone(req[r1].recorded_at) /\ Approved(req[r1])
       /\ req[r2].transfer_error = "On-chain transfer failed." /\ req[r2].record_calls = 0

\* C3: two concurrent requests for the same identity reference never both
\* pass the rate gate before either has written its payout record, hence
\* they are never both paid inside one cooldown window: of two approved
\* requests of one identity that both wrote their record, one was verified
\* at least 24 hours after the other's recorded timestamp.
C3_NoConcurrentDoublePayout ==
    \A r1, r2 \in Requests :
       (/\ r1 # r2
        /\ Approved(req[r1]) /\ Approved(req[r2])
        /\ Val(req[r1].verification).github_user_id
              = Val(req[r2].verification).github_user_id
        /\ ~IsNone(req[r1].recorded_at) /\ ~IsNone(req[r2].recorded_at))
       => \/ Val(req[r2].verified_at) - Val(req[r1].recorded_at) >= Hours(COOLDOWN_HOURS)
          \/ Val(req[r1].verified_at) - Val(req[r2].recorded_at) >= Hours(COOLDOWN_HOURS)

C5_TransferExactlyOnce ==
    \A r \in Requests :
       /\ req[r].transfers <= 1
       /\ Cardinality(SubmittedBy(r)) <= 1
       /\ (VerdictTrue(req[r]) /\ req[r].pc # "payout") => req[r].transfers = 1

\* A verified request ended after its transfer failed, with one invocation;
\* another ended after its record-payout call failed, with one invocation.
C5_Witness ==
    \E r1, r2 \in Requests :
       /\ Done(req[r1]) /\ req[r1].transfer_error # "" /\ req[r1].transfers = 1
       /\ Done(req[r2]) /\ req[r2].record_failed /\ req[r2].transfers = 1

\* C6: when the transfer succeeded and the record-payout call then failed,
\* the request ends "approved" with the transaction reference of the
\* confirmed transfer, and the transfer is not attempted again.
C6_RecordingFailureSwallowed ==
    \A r \in Requests :
       req[r].record_failed
          => /\ Approved(req[r])
             /\ Val(req[r].response).tx_hash = Some(TxOf(req[r]))
             /\ ConfirmedOk(TxOf(req[r]))
             /\ req[r].transfers = 1
             /\ Cardinality(SubmittedBy(r)) = 1

\* A request whose record-payout call failed without writing the row.
C6_Witness ==
    \E r \in Requests :
       /\ req[r].record_failed /\ IsNone(req[r].recorded_at)
       /\ Done(req[r]) /\ req[r].record_calls = 1

\* C7: when the Signer/Submitter fails for a verified request, the request
\* ends with a 500, never "approved", and no payout record is written for it.
C7_TransferFailureIsFailure ==
    \A r \in Requests :
       req[r].transfer_error # ""
          => /\ Failed(req[r])
             /\ Val(req[r].response).status # "approved"
             /\ IsNone(Val(req[r].response).tx_hash)
             /\ req[r].record_calls = 0
             /\ IsNone(req[r].recorded_at)
             /\ \A i \in 1..Len(record_log) :
                   Some(record_log[i].github_user_id)
                      = Val(req[r].verification).github_user_id
                   => \E o \in Requests \ {r} :
                         req[o].recorded_at = Some(record_log[i].last_payout_timestamp)

\* A transfer that was submitted and mined with a failed receipt, and a
\* transfer refused for its address, both ended as failures.
C7_Witness ==
    \E r1, r2 \in Requests :
       /\ req[r1].transfer_error = "On-chain transfer failed." /\ Failed(req[r1])
       /\ req[r2].transfer_error = "invalid address" /\ Failed(req[r2])

\* C8: no two transfers are signed and submitted with the same nonce.
C8_DistinctNonces ==
    \A a, b \in submitted : a.req # b.req => a.nonce # b.nonce

\* C9: with a recorded payout timestamp T, can_collect_tbnb at time t refuses
\* with a "Rate limited" message when t - T < 24 hours and allows when
\* t - T >= 24 hours; without a record it allows. verify_builder reports the
\* same for an identity that passes the earlier gates.
C9_RateGateBoundary ==
    /\ \A row \in payout_history :
          LET id == Some(row.github_user_id)
              gate == can_collect_tbnb(payout_history, id, clock)
              verdict == verify_builder([raised |-> FALSE,
                                         resp |-> GitHubUser(id, 1, None)],
                                        "0xabc", payout_history, clock)
          IN  IF clock - row.last_payout_timestamp < Hours(COOLDOWN_HOURS)
              THEN /\ ~gate[1] /\ gate[2].text = "Rate limited"
                   /\ ~verdict.verified /\ verdict.reason.text = "Rate limited"
              ELSE gate[1] /\ verdict.verified
    /\ \A username \in Usernames :
          LET id == GitHub(username).id
          IN  SelectRows(payout_history, id) = {}
                 => can_collect_tbnb(payout_history, id, clock)[1]

\* A request passed the rate gate exactly 24 hours after the recorded
\* timestamp of its identity.
C9_Witness ==
    \E r \in Requests, row \in payout_history :
       /\ req[r].pc = "payout"
       /\ Val(req[r].verification).github_user_id = Some(row.github_user_id)
       /\ Val(req[r].verified_at) = clock
       /\ clock - row.last_payout_timestamp = Hours(COOLDOWN_HOURS)

\* C10: after any sequence of record-payout operations the table holds at
\* most one row per identity reference, the row of the most recent
\* record-payout for that identity; a repeated record-payout replaces the
\* row, adds none, and leaves the other identities' rows alone.
C10_UpsertOneRowPerIdentity ==
    /\ \A id \in RecordedIds :
          Cardinality(SelectRows(payout_history, Some(id))) = 1
    /\ payout_history = { LastRecorded(id) : id \in RecordedIds }
    /\ Cardinality(payout_history) = Cardinality(RecordedIds)

\* recordPayout(id, t1) then recordPayout(id, t2), t1 # t2: one row, with t2.
C10_Witness ==
    /\ Len(record_log) = 2
    /\ record_log[1].github_user_id = record_log[2].github_user_id
    /\ record_log[1].last_payout_timestamp # record_log[2].last_payout_timestamp
    /\ payout_history = {record_log[2]}

\* The gates as the specification states them, on the inputs of the call vb.
CallResp == Val(vb.lookup).resp
IdentityOk == ~Val(vb.lookup).raised /\ CallResp.status = 200
ActivityOk == CallResp.public_repos >= 1
AgeOk ==
    IsNone(CallResp.created_at)
       \/ clock - Val(CallResp.created_at) >= Days(MIN_ACCOUNT_AGE_DAYS)
RateOk ==
    \A row \in payout_history :
       Some(row.github_user_id) = CallResp.id
          => clock - row.last_payout_timestamp >= Hours(COOLDOWN_HOURS)

\* The gates a call evaluates: all up to and including the first that fails.
GatesDue ==
    IF ~IdentityOk THEN <<"lookup">>
    ELSE IF ~ActivityOk THEN <<"lookup", "activity">>
    ELSE IF ~AgeOk THEN <<"lookup", "activity", "age">>
    ELSE <<"lookup", "activity", "age", "rate">>

AllGatesPass == IdentityOk /\ ActivityOk /\ AgeOk /\ RateOk

FailureReasons(gate) ==
    CASE gate = "lookup"   -> {"GitHub account not found", "Failed to reach GitHub API"}
      [] gate = "activity" -> {"No public repositories"}
      [] gate = "age"      -> {"Account too new"}
      [] gate = "rate"     -> {"Rate limited"}

Returned == vb.pc = "returned"

\* C11: verify_builder evaluates identity lookup, activity (>= 1), age (>= 30
\* days) and rate limit in that order and stops at the first gate that fails:
\* the verdict then has verified = false, confidence 0 and that gate's
\* reason, no later gate is evaluated and payout_history is read only when the
\* three earlier gates passed; the verdict is verified = true with "All
\* verification checks passed" exactly when all four gates pass.
C11_GatesInOrder ==
    /\ vb.store_reads = (IF vb.pc = "returned" /\ Len(vb.gates) = 4 THEN 1 ELSE 0)
    /\ Returned =>
          LET verdict == Val(vb.verdict)
          IN  /\ vb.gates = GatesDue
              /\ verdict.verified <=> AllGatesPass
              /\ verdict.verified
                    => verdict.reason.text = "All verification checks passed"
              /\ ~verdict.verified
                    => /\ verdict.confidence = 0
                       /\ verdict.reason.text
                             \in FailureReasons(vb.gates[Len(vb.gates)])
              /\ verdict = verify_builder(Val(vb.lookup), vb.wallet,
                                          payout_history, clock)

\* A call stopped at the activity gate for an identity that the rate gate
\* would have refused too, without reading the table.
C11_Witness ==
    /\ Returned /\ vb.gates = <<"lookup", "activity">>
    /\ Val(vb.verdict).reason.text = "No public repositories"
    /\ ~RateOk /\ vb.store_reads = 0

\* C12: on the passing path confidence is min(1.0, 0.70 + 0.05 * repo_count):
\* 0.95 at 5 repositories, 1.0 from 6 on, never above 1.0 and never lower for
\* an account with more repositories; on every failing path it is 0.0; it is
\* always within [0, 1]. (Hundredths.)
C12_ConfidenceFormula ==
    Returned =>
       LET verdict == Val(vb.verdict)
           n == CallResp.public_repos
           fewer(m) == verify_builder([raised |-> FALSE,
                                       resp |-> [CallResp EXCEPT !.public_repos = m]],
                                      vb.wallet, payout_history, clock)
       IN  /\ verdict.confidence \in 0..100
           /\ ~verdict.verified => verdict.confidence = 0
           /\ verdict.verified
                 => /\ verdict.repo_count = Some(n)
                    /\ n < 6 => verdict.confidence = 70 + 5 * n
                    /\ n = 5 => verdict.confidence = 95
                    /\ n >= 6 => verdict.confidence = 100
                    /\ \A m \in 1..n :
                          /\ fewer(m).verified
                          /\ fewer(m).confidence <= verdict.confidence

\* A passing verdict for an account with more than 6 repositories: the cap.
C12_Witness ==
    /\ Returned /\ Val(vb.verdict).verified
    /\ CallResp.public_repos > 6
    /\ Val(vb.verdict).confidence = 100

\* C13: when the verdict is verified = false the request ends at once with
\* a denial (403) that carries the verdict's reason and has the verdict
\* embedded in the result returned to the caller.
C13_DenialEmbedsVerdict ==
    \A r \in Requests :
       VerdictFalse(req[r])
          => /\ Denied(req[r])
             /\ Val(req[r].response).detail.reason = Val(req[r].verification).reason
             /\ Val(req[r].response).verification = req[r].verification

\* The instant a request that was paid stopped touching the table.
EndedAt(s) == IF IsNone(s.recorded_at) THEN Val(s.verified_at) ELSE Val(s.recorded_at)

\* C14: once a request has ended "approved" and its record-payout call did
\* not fail, payout_history holds exactly one row for the identity reference
\* of its verdict, whatever value the verifier reported, and a verification
\* of that identity right after the request is rate limited.
C14_ApprovedIsRecorded ==
    \A r \in Requests :
       (Approved(req[r]) /\ ~req[r].record_failed)
          => LET id == Val(req[r].verification).github_user_id
             IN  /\ Cardinality(SelectRows(payout_history, id)) = 1
                 /\ ~can_collect_tbnb(payout_history, id, EndedAt(req[r]))[1]

\* C15: every "approved" result carries a transaction reference, a request
\* id and the verdict, which has verified = true; the transaction reference
\* is that of a transfer this request signed and submitted and that the
\* chain confirmed with a success receipt.
C15_ApprovedIsBacked ==
    \A r \in Requests :
       Approved(req[r])
          => LET response == Val(req[r].response)
             IN  /\ ~IsNone(response.tx_hash)
                 /\ response.request_id = Some(r)
                 /\ ~IsNone(response.verification)
                 /\ Val(response.verification).verified
                 /\ response.verification = req[r].verification
                 /\ response.tx_hash = Some(TxOf(req[r]))
                 /\ [req |-> r, nonce |-> Val(response.tx_hash).nonce] \in submitted
                 /\ ConfirmedOk(Val(response.tx_hash))

\* Two approved results, each with its own confirmed transfer.
C15_Witness ==
    \E r1, r2 \in Requests :
       /\ r1 # r2 /\ Approved(req[r1]) /\ Approved(req[r2])
       /\ Val(req[r1].response).tx_hash # Val(req[r2].response).tx_hash

\* C16: when the identity lookup fails the verdict is verified = false with
\* confidence 0 and no identity reference, and payout_history is not read;
\* the reason says "not found" for a 404 answer, and names the unreachable
\* lookup, not "not found", for a network error, a timeout and any other
\* failure that is not a 404.
C16_LookupFailureReason ==
    (Returned /\ ~IdentityOk)
       => LET verdict == Val(vb.verdict)
              lookup == Val(vb.lookup)
          IN  /\ ~verdict.verified
              /\ verdict.confidence = 0
              /\ IsNone(verdict.github_user_id)
              /\ vb.store_reads = 0
              /\ verdict.reason.text =
                    (IF ~lookup.raised /\ lookup.resp.status = 404
                     THEN "GitHub account not found"
                     ELSE "Failed to reach GitHub API")

\* C17: for an identity without a creation timestamp the age gate is
\* skipped: the verdict's age is None, the rate gate is still evaluated, and
\* the verdict is verified = true when the activity and rate gates pass.
C17_MissingCreationSkipsAge ==
    (Returned /\ IdentityOk /\ ActivityOk /\ IsNone(CallResp.created_at))
       => LET verdict == Val(vb.verdict)
          IN  /\ vb.gates = <<"lookup", "activity", "age", "rate">>
              /\ vb.store_reads = 1
              /\ IsNone(verdict.account_age_days)
              /\ verdict.reason.text # "Account too new"
              /\ verdict.verified <=> RateOk
              /\ ~verdict.verified => verdict.reason.text = "Rate limited"

\* An identity without a creation timestamp that has a row in the table was
\* verified after the rate gate read the table.
C17_Witness ==
    /\ Returned /\ IdentityOk /\ IsNone(CallResp.created_at)
    /\ Val(vb.verdict).verified
    /\ SelectRows(payout_history, CallResp.id) # {}
    /\ vb.store_reads = 1

\* C19: every verdict produced after the identity was resolved carries the
\* identity reference and the activity count, also when it is an
\* insufficient-activity, account-too-new or rate-limited verdict, and it
\* carries the account age whenever the identity has a creation timestamp.
C19_NumericFieldsAttached ==
    (Returned /\ IdentityOk)
       => LET verdict == Val(vb.verdict)
          IN  /\ verdict.github_user_id = CallResp.id
              /\ verdict.repo_count = Some(CallResp.public_repos)
              /\ ~IsNone(CallResp.created_at)
                    => verdict.account_age_days
                          = Some((clock - Val(CallResp.created_at)) \div Days(1))

\* A verification that found a payout record of its identity, and by how
\* much the clock was set back between that record and the verification.
AfterPayout(s) == HasVerdict(s) /\ ~IsNone(s.since_payout)
SetBackSince(s) == Val(s.since_payout).real - Val(s.since_payout).clock

\* The verdict was decided by the rate gate.
RateDecided(s) ==
    Val(s.verification).verified
       \/ Val(s.verification).reason.text = "Rate limited"

Outcomes(s) == { o \in {"denied", "approved", "failed"} :
                    \/ o = "denied" /\ Denied(s)
                    \/ o = "approved" /\ Approved(s)
                    \/ o = "failed" /\ Failed(s) }

\* C20: every request that has arrived eventually ends, with exactly one of
\* the outcomes denied, approved and failed, which is final; it never waits
\* forever on the verifier, on the confirmation or on record-payout; and a
\* transaction the node accepted stays pending until it is mined, whatever
\* happens to the request that sent it.
C20_RequestTerminates ==
    /\ \A r \in Requests : (req[r].pc # "idle") ~> Done(req[r])
    /\ [](\A r \in Requests : Done(req[r]) => Cardinality(Outcomes(req[r])) = 1)
    /\ [][\A r \in Requests : Done(req[r]) => req'[r] = req[r]]_vars
    /\ [][\A tx \in mempool :
             tx \in mempool' \/ \E rc \in receipts' : rc.tx = tx]_vars

\* A request gave up waiting for its receipt and ended as failed while its
\* transaction was still pending, and another request ended approved.
C20_Witness ==
    \E r1, r2 \in Requests :
       /\ Failed(req[r1]) /\ req[r1].transfer_error = "receipt timeout"
       /\ TxOf(req[r1]) \in mempool
       /\ Approved(req[r2])

\* C21: verification is read-only on payout_history: a verify call, whatever
\* its verdict, leaves every row as it was, and so does a request that ends
\* in denial; the table changes only in a record-payout call, so verifying
\* never starts or extends a cooldown.
C21_VerificationReadOnly ==
    /\ [][\A r \in Requests :
             (req[r].pc = "idle" /\ req'[r].pc # "idle")
                => payout_history' = payout_history]_vars
    /\ [][vb' # vb => payout_history' = payout_history]_vars
    /\ [][payout_history' # payout_history
             => \E r \in Requests :
                   /\ req[r].pc = "recording"
                   /\ req'[r].record_calls = req[r].record_calls + 1]_vars
    /\ [](\A r \in Requests :
             Denied(req[r]) => req[r].record_calls = 0 /\ IsNone(req[r].recorded_at))

\* A request was refused by the rate gate at a later instant than the one
\* stamped in its identity's row, and the row still carries the stamp the
\* paying request wrote.
C21_Witness ==
    \E r1, r2 \in Requests :
       /\ Approved(req[r1]) /\ ~IsNone(req[r1].recorded_at)
       /\ Denied(req[r2]) /\ AfterPayout(req[r2])
       /\ Val(req[r2].verification).reason.text = "Rate limited"
       /\ Val(req[r2].verified_at) > Val(req[r1].recorded_at)
       /\ payout_history = {Row(Val(Val(req[r1].verification).github_user_id),
                                Val(req[r1].recorded_at))}

\* C22: when the call to the verifier yields no verdict (unreachable,
\* timeout, non-2xx) or a response without a true "verified" field, the
\* request ends at once, not "approved", with no transfer attempted and no
\* record-payout call made.
C22_NoTrueVerdictNoPayout ==
    \A r \in Requests :
       (req[r].pc # "idle" /\ ~VerdictTrue(req[r]))
          => /\ Done(req[r])
             /\ ~Approved(req[r])
             /\ Val(req[r].response).status_code =
                   (IF IsNone(req[r].verification) THEN 500 ELSE 403)
             /\ req[r].transfers = 0 /\ IsNone(req[r].nonce)
             /\ SubmittedBy(r) = {}
             /\ IsNone(req[r].tx_hash)
             /\ req[r].record_calls = 0 /\ IsNone(req[r].recorded_at)

\* One request got no answer from the verifier, another got an answer
\* without a "verified" field; neither attempted a transfer.
C22_Witness ==
    \E r1, r2 \in Requests :
       /\ Done(req[r1]) /\ IsNone(req[r1].verification) /\ Failed(req[r1])
       /\ req[r1].transfers = 0
       /\ Done(req[r2]) /\ ~IsNone(req[r2].verification) /\ ~HasVerdict(req[r2])
       /\ Denied(req[r2]) /\ req[r2].transfers = 0
       /\ Val(req[r2].response).detail.reason = Text("Unknown verification failure")

====
